---- MODULE Spec2Model ----
(***************************************************************************)
(* Otman: hand-gesture driven 3D scene.                                    *)
(*                                                                         *)
(* The model covers the gesture classifier                                 *)
(* (services/handTrackingService.ts), the signal stabilizer                *)
(* (components/HandController.tsx), the mode state machine and the photo   *)
(* list (App.tsx), the pointer selector and the object animator            *)
(* (components/Experience.tsx), and the capture service with its start,    *)
(* stop and frame loop (services/handTrackingService.ts).  That file       *)
(* declares the class HandTrackingService twice; which declaration the     *)
(* page runs is left open (environment.build).                             *)
(*                                                                         *)
(* Numbers.  Positions are normalised to [0,1] in the code.  Here a        *)
(* coordinate is an integer number of 1/Unit, with Unit = 2 * SmoothDen,   *)
(* the coarsest grid on which the start value 0.5 and one smoothing step   *)
(* of factor 1/SmoothDen are exact.  Frames are drawn from the landmark    *)
(* sets whose smoothing step is exact on this grid, so the arithmetic of   *)
(* the model is the arithmetic of the code without rounding.  Normalised   *)
(* device coordinates [-1,1] are integers in [-Unit,Unit].  Distances are  *)
(* compared through their squares (sqrt and hypot are monotone).           *)
(*                                                                         *)
(* Scheduling.  Everything runs on one event loop, so every handler is an  *)
(* atomic action.  The scheduling of React is that of a React 18 root:     *)
(*  - a state setter called outside a React event handler (the inference   *)
(*    callback, a frame callback) does not change the state it sets: it    *)
(*    queues an update that a later render commits (Render);               *)
(*  - a setter called while no work is recorded on the component (lanes =  *)
(*    NoLanes) computes its state at once (a functional updater is run by  *)
(*    the setter) and queues nothing when the state does not change;       *)
(*    otherwise the update is queued and an updater is run by the render;  *)
(*  - a render that changes state leaves work recorded on the component's  *)
(*    alternate (lanes = AlternateLanes) until a render that changes       *)
(*    nothing clears it;                                                   *)
(*  - the useEffect callbacks of a commit run later still (FlushEffects),  *)
(*    at the latest right before the next render;                          *)
(*  - the updates of a click or change handler are rendered before the     *)
(*    handler returns to the event loop, together with the effects of the  *)
(*    commit; updates queued earlier stay queued and are applied on top.   *)
(* setIsHandPresent and setCurrentGesture are always called together, so   *)
(* one queue entry stands for the two updates of a tick.                   *)
(***************************************************************************)
EXTENDS Integers, Sequences, FiniteSets, TLC

\* ---------------------------------------------------------------- types.ts
NONE == "NONE"
FIST == "FIST"
OPEN_PALM == "OPEN_PALM"
TWO_FINGERS == "TWO_FINGERS"
HandGesture == {NONE, FIST, OPEN_PALM, TWO_FINGERS}

TREE == "TREE"
SCATTER == "SCATTER"
ZOOM == "ZOOM"
AppState == {TREE, SCATTER, ZOOM}

\* ------------------------------------------------------- program constants
\* smoothingFactor = 0.1 = 1 / SmoothDen
SmoothDen == 10
\* the history buffer keeps the last HistoryLen raw gestures
HistoryLen == 5
\* a dominant gesture is emitted when it fills Majority slots of the buffer
Majority == 3
\* a finger is folded when dTip < dPip * 1.1 = dPip * FoldNum / FoldDen
FoldNum == 11
FoldDen == 10
\* a photo is selected when minDist < 0.4 = SelectNum / SelectDen
SelectNum == 4
SelectDen == 10
\* a frame is sent to the engine when 33 ms have passed: now - lastProcessTime < 33
ThrottleMs == 33

\* ------------------------------------------------------------------ bounds
\* most photos the list holds
MaxPhotos == 2
\* most files one upload adds
MaxFiles == 1
\* most capture ticks whose updates are queued between two renders
MaxPending == 2
\* frames of one smoothing run, and steps of the grid of its positions
SmoothTicks == 3
SmoothGrid == 4
\* frames of one animator run, parts of a second in which a frame's delta
\* is counted, and the longest delta
AnimTicks == 2
AnimDen == 6
MaxDelta == 2
\* the longest delta of a frame that comes late
LongDelta == 5
\* calls of stop() by a client of the service, the step of the clock and
\* its last reading, in milliseconds
MaxStops == 2
MaxStarts == 2
ClockStep == 17
MaxClock == 68

\* ------------------------------------------------------------------- grid
Unit == 2 * SmoothDen
Half == Unit \div 2
Point(x, y) == [x |-> x, y |-> y]
Sq(n) == n * n
\* Math.hypot(p1.x - p2.x, p1.y - p2.y), squared
Dist2(p1, p2) == Sq(p1.x - p2.x) + Sq(p1.y - p2.y)

\* -------------------------------------------------------------- landmarks
\* A landmark set is a function from 0..20 to points: 0 the wrist, 4 the
\* thumb tip, 9 the palm centre, (8,6) (12,10) (16,14) (20,18) the tip and
\* pip of index, middle, ring and pinky.
LandmarkIdx == 0 .. 20
Tips == {8, 12, 16, 20}
PipOf(tip) == tip - 2
ThumbTip == 4
PalmIdx == 9

\* const isFingerFolded = (tipIdx, pipIdx) => dTip < dPip * 1.1
IsFingerFolded(landmarks, tipIdx, pipIdx) ==
    Sq(FoldDen) * Dist2(landmarks[tipIdx], landmarks[0])
        < Sq(FoldNum) * Dist2(landmarks[pipIdx], landmarks[0])

FoldedCount(landmarks) ==
    Cardinality({t \in Tips : IsFingerFolded(landmarks, t, PipOf(t))})

\* a null or undefined array: no array has its domain
Missing == [i \in {-1} |-> TRUE]

\* HandTrackingService.detectGesture; landmarks is Missing, <<>> (an empty
\* array) or a landmark set
DetectGestureFistAtTwo(landmarks) ==
    IF landmarks = Missing \/ landmarks = <<>> THEN NONE
    ELSE IF /\ ~IsFingerFolded(landmarks, 8, 6)
            /\ ~IsFingerFolded(landmarks, 12, 10)
            /\ IsFingerFolded(landmarks, 16, 14)
            /\ IsFingerFolded(landmarks, 20, 18) THEN TWO_FINGERS
    ELSE IF FoldedCount(landmarks) >= 2 THEN FIST
    ELSE OPEN_PALM

DetectGesture(landmarks) ==
    IF landmarks = Missing \/ landmarks = <<>> THEN NONE
    ELSE IF /\ ~IsFingerFolded(landmarks, 8, 6)
            /\ ~IsFingerFolded(landmarks, 12, 10)
            /\ IsFingerFolded(landmarks, 16, 14)
            /\ IsFingerFolded(landmarks, 20, 18) THEN TWO_FINGERS
    ELSE IF FoldedCount(landmarks) >= 3 THEN FIST
    ELSE IF FoldedCount(landmarks) <= 1 THEN OPEN_PALM
    ELSE OPEN_PALM

\* Hands of the model: the wrist at the bottom centre of the image, every
\* pip at distance Half from it, every tip on the line through both.
Wrist == Point(Half, Unit)
Pip == Point(Half, Half)
\* tip poses: curled (closer than the pip), level (as far as the pip, still
\* folded by the 1.1 margin), edge (dTip = 1.1 * dPip exactly: not folded),
\* straight
TipCurled == Point(Half, Half + Half \div 2)
TipLevel == Point(Half, Half)
TipEdge == Point(Half, Unit - (FoldNum * Half) \div FoldDen)
TipStraight == Point(Half, 0)
TipPoses == {TipCurled, TipLevel, TipEdge, TipStraight}
ThumbPoses == {TipCurled, TipStraight}

Hand(palm, thumb, tips) ==
    [i \in LandmarkIdx |->
        IF i = 0 THEN Wrist
        ELSE IF i = PalmIdx THEN palm
        ELSE IF i = ThumbTip THEN thumb
        ELSE IF i \in Tips THEN tips[i]
        ELSE IF i + 2 \in Tips THEN Pip
        ELSE Wrist]

\* every hand shape over the poses S, with the palm at `palm`
HandsOver(palms, thumbs, poses) ==
    {Hand(palm, thumb, tips) :
        palm \in palms, thumb \in thumbs, tips \in [Tips -> poses]}

\* ------------------------------------------------------------- stabilizer
LerpTwice(prev, raw) == prev + 2 * ((raw - prev) \div SmoothDen)

\* prev + (raw - prev) * smoothingFactor
Lerp(prev, raw) == prev + (raw - prev) \div SmoothDen

\* the step is exact on the grid
ExactLerp(prev, raw) == (raw - prev) % SmoothDen = 0

\* rawX = 1 - palm.x (mirrored), rawY = palm.y
RawX(palm) == Unit - palm.x
RawY(palm) == palm.y

\* the position smoothing block: the position it leaves in prevPositionRef;
\* without a hand rawX and rawY keep their default and are not used
SmoothResetOnLoss(isPresent, prev, rawX, rawY) ==
    IF isPresent
    THEN Point(Lerp(prev.x, rawX), Lerp(prev.y, rawY))
    ELSE Point(rawX, rawY)

Smooth(isPresent, prev, rawX, rawY) ==
    IF isPresent
    THEN Point(Lerp(prev.x, rawX), Lerp(prev.y, rawY))
    ELSE prev

\* gestureHistoryRef.current.push(gesture); if (length > 5) shift()
PushNoShift(history, gesture) == Append(history, gesture)

Push(history, gesture) ==
    IF Len(history) + 1 > HistoryLen
    THEN Tail(Append(history, gesture))
    ELSE Append(history, gesture)

\* counts[g] of the reduce over the history
Count(history, g) == Cardinality({i \in DOMAIN history : history[i] = g})

\* Object.keys(counts): the labels of the history in the order of their
\* first occurrence
RECURSIVE Keys(_)
Keys(history) ==
    IF history = <<>> THEN <<>>
    ELSE LET front == SubSeq(history, 1, Len(history) - 1)
             last == history[Len(history)]
         IN  IF Count(front, last) > 0 THEN Keys(front)
             ELSE Append(Keys(front), last)

\* keys.reduce((a, b) => counts[a] > counts[b] ? a : b), a the accumulator
RECURSIVE ReduceKeepsTies(_, _, _)
ReduceKeepsTies(a, keys, history) ==
    IF keys = <<>> THEN a
    ELSE ReduceKeepsTies(IF Count(history, a) >= Count(history, Head(keys))
                         THEN a ELSE Head(keys),
                         Tail(keys), history)

RECURSIVE Reduce(_, _, _)
Reduce(a, keys, history) ==
    IF keys = <<>> THEN a
    ELSE Reduce(IF Count(history, a) > Count(history, Head(keys))
                THEN a ELSE Head(keys),
                Tail(keys), history)

Dominant(history) ==
    Reduce(Head(Keys(history)), Tail(Keys(history)), history)

\* if (counts[dominant] >= 3) lastEmitted = dominant
EmitAlways(history, lastEmitted) == Dominant(history)

EmitPlurality(history, lastEmitted) ==
    IF Count(history, Dominant(history)) >= Majority - 1
    THEN Dominant(history)
    ELSE lastEmitted

EmitOrNone(history, lastEmitted) ==
    IF Count(history, Dominant(history)) >= Majority
    THEN Dominant(history)
    ELSE NONE

Emit(history, lastEmitted) ==
    IF Count(history, Dominant(history)) >= Majority
    THEN Dominant(history)
    ELSE lastEmitted

\* the debouncing block of the callback: the history and the emitted
\* gesture it leaves; the else branch resets both
DebounceKeepEmitted(isPresent, history, lastEmitted, gesture) ==
    IF isPresent
    THEN [history |-> Push(history, gesture),
          emitted |-> Emit(Push(history, gesture), lastEmitted)]
    ELSE [history |-> <<>>, emitted |-> lastEmitted]

DebounceKeepHistory(isPresent, history, lastEmitted, gesture) ==
    IF isPresent
    THEN [history |-> Push(history, gesture),
          emitted |-> Emit(Push(history, gesture), lastEmitted)]
    ELSE [history |-> history, emitted |-> NONE]

Debounce(isPresent, history, lastEmitted, gesture) ==
    IF isPresent
    THEN [history |-> Push(history, gesture),
          emitted |-> Emit(Push(history, gesture), lastEmitted)]
    ELSE [history |-> <<>>, emitted |-> NONE]

\* ------------------------------------------------------------------ state
VARIABLES
    \* the fields of the HandTrackingService HandController has made:
    \* hands, animationFrameId, stream, isRunning, lastProcessTime
    service,
    \* the event loop around it: the clock, where startCamera stands, the
    \* inference request in flight, the frame callback requested, and what
    \* has been called so far
    runtime,
    \* what the page found: which of the two class declarations of
    \* handTrackingService.ts the build bound, the Hands class, the camera,
    \* the inference engine, video playback
    environment,
    \* HandController.tsx refs
    isMountedRef,
    prevPositionRef, gestureHistoryRef, lastEmittedGestureRef,
    \* App.tsx refs
    handDataRef, appStateRef, photosRef,
    \* App.tsx state, as of the last commit
    appState, photos, isHandPresent, currentGesture, activePhotoIndex,
    \* Experience.tsx state, as of the last commit
    photoParticles,
    \* updates queued by the state setters since the last render: those of
    \* setIsHandPresent and setCurrentGesture in call order, and for
    \* setAppState and setActivePhotoIndex <<>> or <<v>>, v the value the
    \* queued updates produce
    updateQueue, pendingAppState, pendingIndex,
    \* the work React has recorded on App
    lanes,
    \* the last commit changed a dependency of the effects of App, which have
    \* not run yet
    effectsPending,
    \* inputs and result of the function harnesses
    landmarksIn, detected, projection,
    \* the raw position held before the smoothing block and the smoothed
    \* positions it left in prevPositionRef, the starting one first
    rawIn, track,
    \* the animated height and scale of one ornament (its slot of
    \* buffer.current) and of the first photo (the position and scale of
    \* its group), and the delta, clock sample and mode of the last frame
    \* of the animator
    animated, frameIn

serviceVars == <<service, runtime, environment, isMountedRef>>
stabilizerVars == <<prevPositionRef, gestureHistoryRef, lastEmittedGestureRef>>
refVars == <<appStateRef, photosRef>>
appCommitted == <<appState, photos, isHandPresent, currentGesture, activePhotoIndex>>
committedVars == <<appCommitted, photoParticles>>
appPending == <<updateQueue, pendingAppState, pendingIndex, lanes>>
harnessVars == <<landmarksIn, detected, projection, rawIn, track, animated, frameIn>>
vars ==
    <<serviceVars, stabilizerVars, handDataRef, refVars, committedVars, appPending,
      effectsPending, harnessVars>>

Centre == Point(Half, Half)

\* ------------------------------------------------------------------ service
\* hands is "null" (undefined or null), "ready" or "closed"; stream is
\* TRUE when a stream is held. A call of start() begins at most one chain
\* of processFrame, which has at most one frame callback requested at a
\* time: animationFrameId is 0 while it is undefined and otherwise the
\* number of the call of start() whose chain made the last request, so
\* that it names the callback of that chain, if one is pending.
NewService(hands) ==
    [hands |-> hands, animationFrameId |-> 0, stream |-> FALSE,
     isRunning |-> FALSE, lastProcessTime |-> 0]

\* The calls of start() are numbered: the first is the call of
\* startCamera, the others are calls of another client of the service.
\* pc[k]: where call k is; for the first call "new" before the
\* constructor, "constructed", "failed" when the constructor threw, for the
\* others "uncalled"; then "awaitCamera" and "awaitMetadata" at the awaits
\* of start, "stuck" when play() was refused, "done" once start has
\* returned or thrown; send[k]: the request of the chain of call k, "none",
\* "pending" or "hung"; scheduled[k]: a frame callback of that chain is
\* requested; lastCall: the last of start() and stop() called; lastDone:
\* <<>> or <<t>>, t the time the last request that succeeded completed;
\* late: a result was delivered after the unmount; escaped: an error
\* reached the page
Calls == 1 .. MaxStarts

NewRuntime ==
    [now |-> 0, pc |-> [k \in Calls |-> IF k = 1 THEN "new" ELSE "uncalled"],
     send |-> [k \in Calls |-> "none"], scheduled |-> [k \in Calls |-> FALSE],
     stops |-> 0, lastCall |-> "none", lastDone |-> <<>>, late |-> FALSE,
     escaped |-> FALSE]

Environments ==
    [build : {1, 2}, Hands : {"loaded", "missing", "broken"},
     camera : {"granted", "denied", "missing"}, engine : {"working", "failing"},
     play : {"allowed", "refused"}]

\* everything granted and the service started, as the other
\* specifications have it, which abstract the service to its capture ticks
EnvironmentGranted ==
    [build |-> 1, Hands |-> "loaded", camera |-> "granted", engine |-> "working",
     play |-> "allowed"]

ServiceStarted ==
    [NewService("ready") EXCEPT !.stream = TRUE, !.isRunning = TRUE,
                                !.animationFrameId = 1]

RuntimeStarted ==
    [NewRuntime EXCEPT !.pc[1] = "done", !.scheduled[1] = TRUE,
                       !.lastCall = "start"]

\* ----------------------------------------------------------------- animator
\* Heights are integers in 1 / AnimUnit of a tenth of a world unit and the
\* delta of a frame is a multiple of 1 / AnimDen of a second, so that
\* AnimTicks frames are exact.
RECURSIVE Pow(_, _)
Pow(b, n) == IF n = 0 THEN 1 ELSE b * Pow(b, n - 1)

AnimUnit == Pow(AnimDen, AnimTicks)

\* treePos[1] and scatterPos[1] of the ornament and of the first photo
OrnamentData == [treePos |-> 10 * AnimUnit, scatterPos |-> -20 * AnimUnit]
PhotoData == [treePos |-> 30 * AnimUnit, scatterPos |-> 20 * AnimUnit]

\* Scales are integers in 1 / AnimUnit of a hundredth. scale of the
\* ornament, between 0.1 and 0.4; the scale its slot of the buffer is
\* filled with; the scale of a group that was given none
OrnamentScale == 20 * AnimUnit
BufferScale == AnimUnit
GroupScale == 100 * AnimUnit

\* initialPos[1]: the scatter anchor of an ornament, 0 of a photo
AnimatedInitial ==
    [ornament |-> OrnamentData.scatterPos, photo |-> 0,
     ornamentScale |-> BufferScale, photoScale |-> GroupScale]

NoFrame == [delta |-> 0, sway |-> 0, mode |-> TREE, ticks |-> 0]

\* Math.sin(time + id), sampled
Sway == {-1, 0, 1}

\* THREE.MathUtils.lerp(x, y, t) and Vector3.lerp, t = num / AnimDen
AnimLerp(x, y, num) == x + ((y - x) * num) \div AnimDen

\* lerpSpeed = isTree ? 3 * delta : 2 * delta
LerpSpeed(mode, delta) == IF mode = TREE THEN 3 * delta ELSE 2 * delta

\* ty of InstancedOrnaments
OrnamentTarget(mode, sway) ==
    IF mode = SCATTER \/ mode = ZOOM
    THEN OrnamentData.scatterPos + sway * 5 * AnimUnit
    ELSE OrnamentData.treePos

\* targetPos.y of PhotoDisplay
PhotoTarget(mode, isSelected, sway) ==
    IF mode = SCATTER THEN PhotoData.scatterPos + sway * 3 * AnimUnit
    ELSE IF mode = ZOOM
    THEN IF isSelected THEN 0 ELSE (PhotoData.scatterPos * 3) \div 2
    ELSE PhotoData.treePos

\* targetScale of InstancedOrnaments: d.scale * targetScaleVal
OrnamentScaleTarget(mode) ==
    IF mode = ZOOM THEN OrnamentScale \div 2 ELSE OrnamentScale

\* targetScale of PhotoDisplay
PhotoScaleTarget(mode, isSelected) ==
    IF mode = SCATTER THEN (IF isSelected THEN 250 ELSE 150) * AnimUnit
    ELSE IF mode = ZOOM THEN (IF isSelected THEN 600 ELSE 50) * AnimUnit
    ELSE 180 * AnimUnit

\* no work recorded; work left on the alternate by the last render; an
\* update queued and a render scheduled
NoLanes == "NoLanes"
AlternateLanes == "AlternateLanes"
PendingLanes == "PendingLanes"

InitReact ==
    /\ prevPositionRef = Centre
    /\ gestureHistoryRef = <<>>
    /\ lastEmittedGestureRef = NONE
    /\ handDataRef = [gesture |-> NONE, position |-> Centre, isPresent |-> FALSE]
    /\ appStateRef = TREE
    /\ photosRef = <<>>
    /\ appState = TREE
    /\ photos = <<>>
    /\ isHandPresent = FALSE
    /\ currentGesture = NONE
    /\ activePhotoIndex = 0
    /\ photoParticles = <<>>
    /\ updateQueue = <<>>
    /\ pendingAppState = <<>>
    /\ pendingIndex = <<>>
    /\ lanes = NoLanes
    /\ effectsPending = FALSE

InitSystem ==
    /\ InitReact
    /\ service = ServiceStarted
    /\ runtime = RuntimeStarted
    /\ environment = EnvironmentGranted
    /\ isMountedRef = TRUE

Init ==
    /\ InitSystem
    /\ landmarksIn = Missing
    /\ detected = <<>>
    /\ projection = <<>>
    /\ rawIn = Centre
    /\ track = <<>>
    /\ animated = AnimatedInitial
    /\ frameIn = NoFrame

\* ---------------------------------------------------- mode state machine
\* the switch of onHandUpdateProxy: <<m>> when it calls setAppState(m)
Machine(gesture, currentAppState, photosRefCurrent) ==
    IF gesture = FIST
    THEN IF currentAppState # TREE THEN <<TREE>> ELSE <<>>
    ELSE IF gesture = OPEN_PALM
    THEN IF currentAppState # SCATTER THEN <<SCATTER>> ELSE <<>>
    ELSE IF gesture = TWO_FINGERS
    THEN IF currentAppState = SCATTER /\ Len(photosRefCurrent) > 0
         THEN <<ZOOM>> ELSE <<>>
    ELSE <<>>

\* the updater given to setCurrentGesture, run on the state `prev` while
\* the refs hold currentAppState and photosRefCurrent: the next state and
\* the setAppState call it makes
GestureUpdaterNoEdge(prev, result, currentAppState, photosRefCurrent) ==
    [state |-> result.gesture,
     set |-> IF result.isPresent
             THEN Machine(result.gesture, currentAppState, photosRefCurrent)
             ELSE <<>>]

GestureUpdater(prev, result, currentAppState, photosRefCurrent) ==
    IF prev # result.gesture
    THEN [state |-> result.gesture,
          set |-> IF result.isPresent
                  THEN Machine(result.gesture, currentAppState, photosRefCurrent)
                  ELSE <<>>]
    ELSE [state |-> prev, set |-> <<>>]

\* onHandUpdateProxy(result)
\* handDataRef.current = result: what the ref holds after the callback,
\* given what it held
StoredOnEdge(current, result) ==
    IF result.gesture # current.gesture THEN result ELSE current

Stored(current, result) == result

OnHandUpdateProxy(result) ==
    /\ handDataRef' = Stored(handDataRef, result)
    /\ IF lanes = NoLanes /\ result.isPresent = isHandPresent
       THEN \* setIsHandPresent is given the committed value and queues
            \* nothing; the updater is run by setCurrentGesture, and
            \* setAppState queues nothing when given the committed mode
            LET upd == GestureUpdater(currentGesture, result, appStateRef, photosRef)
                set == IF upd.set # <<>> /\ upd.set # <<appState>>
                       THEN upd.set ELSE <<>>
            IN  /\ updateQueue' =
                       IF upd.state = currentGesture THEN <<>>
                       ELSE <<[gesture |-> upd.state,
                               isPresent |-> result.isPresent,
                               evaluated |-> TRUE]>>
                /\ pendingAppState' = set
                /\ lanes' =
                       IF upd.state = currentGesture /\ set = <<>>
                       THEN NoLanes ELSE PendingLanes
                /\ UNCHANGED pendingIndex
       ELSE \* both updates are queued for the next render
            /\ Len(updateQueue) < MaxPending
            /\ updateQueue' =
                   Append(updateQueue,
                          [gesture |-> result.gesture,
                           isPresent |-> result.isPresent,
                           evaluated |-> FALSE])
            /\ lanes' = PendingLanes
            /\ UNCHANGED <<pendingAppState, pendingIndex>>

\* ------------------------------------------------------------ capture tick
\* the callback given to HandTrackingService, called with the results of
\* one inference
OnResults(multiHandLandmarks) ==
    LET isPresent == multiHandLandmarks # Missing /\ Len(multiHandLandmarks) > 0
        landmarks == multiHandLandmarks[1]
        gesture == IF isPresent THEN DetectGesture(landmarks) ELSE NONE
        palm == landmarks[PalmIdx]
        rawX == IF isPresent THEN RawX(palm) ELSE Half
        rawY == IF isPresent THEN RawY(palm) ELSE Half
        position == Smooth(isPresent, prevPositionRef, rawX, rawY)
        debounced ==
            Debounce(isPresent, gestureHistoryRef, lastEmittedGestureRef, gesture)
    IN  /\ prevPositionRef' = position
        /\ gestureHistoryRef' = debounced.history
        /\ lastEmittedGestureRef' = debounced.emitted
        /\ OnHandUpdateProxy(
               [gesture |-> debounced.emitted, position |-> position,
                isPresent |-> isPresent])
        /\ UNCHANGED <<refVars, committedVars, effectsPending, harnessVars>>

\* the palms of a frame: on the diagonal of the image at one of `coords`,
\* where one smoothing step from the current position is exact
FramePalms(coords) ==
    {p \in {Point(c, c) : c \in coords} :
        /\ ExactLerp(prevPositionRef.x, RawX(p))
        /\ ExactLerp(prevPositionRef.y, RawY(p))}

\* finger shapes: fist, open hand, victory sign, index and pinky raised
Shape(straight) == [t \in Tips |-> IF t \in straight THEN TipStraight ELSE TipCurled]
GestureShapes == {Shape({}), Shape(Tips), Shape({8, 12})}
FrameShapes == GestureShapes \cup {Shape({8, 20})}

\* a hand anywhere on the diagonal
MovingPalm == 0 .. Unit - 1
\* a hand held over the centre of the image
SteadyPalm == {Half}

\* the results of one inference: no hand list, an empty one, or one hand
Frames(coords, shapes) ==
    {Missing, <<>>}
        \cup {<<Hand(palm, TipStraight, tips)>> :
                  palm \in FramePalms(coords), tips \in shapes}

CaptureTickOver(frames) ==
    /\ \E multiHandLandmarks \in frames : OnResults(multiHandLandmarks)
    /\ UNCHANGED serviceVars

\* ------------------------------------------------------------------ React
\* the photo objects the rebuild effect of Experience makes of the list
Rebuild(photoList) ==
    [i \in 1 .. Len(photoList) |-> [id |-> (i - 1) + 1000, photoUrl |-> photoList[i]]]

\* the queue of gesture updaters applied in order to the state `gesture`
\* with `set` the pending setAppState, under the refs of the render
RECURSIVE ApplyQueue(_, _, _, _, _)
ApplyQueue(queue, gesture, set, currentAppState, photosRefCurrent) ==
    IF queue = <<>> THEN [state |-> gesture, set |-> set]
    ELSE LET u == Head(queue)
             upd == IF u.evaluated
                    THEN [state |-> u.gesture, set |-> <<>>]
                    ELSE GestureUpdater(gesture, u, currentAppState, photosRefCurrent)
         IN  ApplyQueue(Tail(queue), upd.state,
                        IF upd.set # <<>> THEN upd.set ELSE set,
                        currentAppState, photosRefCurrent)

\* the effects of App: appStateRef.current = appState,
\* photosRef.current = photos
SyncedAppStateRef == appState

SyncedPhotosRef == photos

\* the effects left over from the last commit of App run; nothing else
\* happens
FlushEffects ==
    /\ effectsPending
    /\ appStateRef' = SyncedAppStateRef
    /\ photosRef' = SyncedPhotosRef
    /\ effectsPending' = FALSE
    /\ UNCHANGED <<serviceVars, stabilizerVars, handDataRef, committedVars, appPending, harnessVars>>

\* A render of App starts by running the effects left over from the last
\* commit: the refs the queued updaters read
RenderAppStateRef == IF effectsPending THEN SyncedAppStateRef ELSE appStateRef

RenderPhotosRef == IF effectsPending THEN SyncedPhotosRef ELSE photosRef

\* the animated positions after InstancedOrnaments and PhotoDisplay render
\* again: the effect that fills buffer.current depends on [data, dummy] and
\* does not run, and the position prop of the group is the same
\* data.initialPos and is not applied again
ReconcileRemount(positions) == AnimatedInitial

Reconcile(positions) == positions

\* the gesture state and the setAppState call a render ends with
Rendered ==
    ApplyQueue(updateQueue, currentGesture, pendingAppState,
               RenderAppStateRef, RenderPhotosRef)

\* the mode a render commits
RenderedAppState == IF Rendered.set # <<>> THEN Rendered.set[1] ELSE appState

\* React renders and commits App
Render ==
    /\ lanes = PendingLanes
    /\ appStateRef' = RenderAppStateRef
    /\ photosRef' = RenderPhotosRef
    /\ currentGesture' = Rendered.state
    /\ isHandPresent' =
           IF updateQueue = <<>> THEN isHandPresent
           ELSE updateQueue[Len(updateQueue)].isPresent
    /\ appState' = RenderedAppState
    /\ activePhotoIndex' =
           IF pendingIndex # <<>> THEN pendingIndex[1] ELSE activePhotoIndex
    /\ effectsPending' = (RenderedAppState # appState)
    /\ updateQueue' = <<>>
    /\ pendingAppState' = <<>>
    /\ pendingIndex' = <<>>
    /\ lanes' =
           IF <<currentGesture', isHandPresent', appState', activePhotoIndex'>>
                  = <<currentGesture, isHandPresent, appState, activePhotoIndex>>
           THEN NoLanes ELSE AlternateLanes
    /\ animated' = Reconcile(animated)
    /\ UNCHANGED <<serviceVars, stabilizerVars, handDataRef, photos, photoParticles, landmarksIn,
                   detected, projection, rawIn, track, frameIn>>

\* Experience runs its effect on [photos] and renders the state it set:
\* setPhotoParticles(newParticles)
RebuildParticles ==
    /\ photoParticles # Rebuild(photos)
    /\ photoParticles' = Rebuild(photos)
    /\ UNCHANGED <<serviceVars, stabilizerVars, handDataRef, refVars, appCommitted, appPending,
                   effectsPending, harnessVars>>

\* ------------------------------------------------------------- photo list
\* the work recorded on App after a handler's render, which leaves the
\* updates queued before it queued
LanesAfterHandler == IF lanes = PendingLanes THEN PendingLanes ELSE AlternateLanes

\* handlePhotoUpload with n files: setPhotos(prev => [...prev, ...newUrls]),
\* rendered with the effects of App before the handler returns
HandlePhotoUpload(n) ==
    /\ n > 0
    /\ Len(photos) + n <= MaxPhotos
    /\ photos' = photos \o [i \in 1 .. n |-> "blob"]
    /\ appStateRef' = SyncedAppStateRef
    /\ photosRef' = photos'
    /\ effectsPending' = FALSE
    /\ lanes' = LanesAfterHandler
    /\ UNCHANGED <<serviceVars, stabilizerVars, handDataRef, appState, isHandPresent,
                   currentGesture, activePhotoIndex, photoParticles, updateQueue,
                   pendingAppState, pendingIndex, harnessVars>>

\* clearPhotos, the handler of the button shown while photos.length > 0:
\* setPhotos([]); setActivePhotoIndex(0), rendered with the effects of App
\* before the handler returns; a selection queued earlier is applied first
ClearPhotos ==
    /\ Len(photos) > 0
    /\ photos' = <<>>
    /\ activePhotoIndex' = 0
    /\ pendingIndex' = IF pendingIndex # <<>> THEN <<0>> ELSE <<>>
    /\ appStateRef' = SyncedAppStateRef
    /\ photosRef' = photos'
    /\ effectsPending' = FALSE
    /\ lanes' = LanesAfterHandler
    /\ UNCHANGED <<serviceVars, stabilizerVars, handDataRef, appState, isHandPresent,
                   currentGesture, photoParticles, updateQueue, pendingAppState,
                   harnessVars>>

\* --------------------------------------------------------------- selector
\* photoParticles.forEach: best is <<>> (minDist = Infinity, closestIndex =
\* -1) or <<minDist squared, closestIndex>>; anchors[i + 1] is the i-th
\* photo's anchor projected by the camera
RECURSIVE ClosestLast(_, _, _, _)
ClosestLast(anchors, ndc, i, best) ==
    IF i >= Len(anchors) THEN best
    ELSE LET dist == Dist2(anchors[i + 1], ndc)
         IN  ClosestLast(anchors, ndc, i + 1,
                         IF best = <<>> \/ dist <= best[1] THEN <<dist, i>> ELSE best)

RECURSIVE Closest(_, _, _, _)
Closest(anchors, ndc, i, best) ==
    IF i >= Len(anchors) THEN best
    ELSE LET dist == Dist2(anchors[i + 1], ndc)
         IN  Closest(anchors, ndc, i + 1,
                     IF best = <<>> \/ dist < best[1] THEN <<dist, i>> ELSE best)

\* minDist < 0.4, on squares and in grid units
WithinThreshold(dist2) == Sq(SelectDen) * dist2 < Sq(SelectNum) * Sq(Unit)

\* ndcX = x * 2 - 1, ndcY = -(y * 2) + 1
Ndc(position) == Point(position.x * 2 - Unit, -(position.y * 2) + Unit)

\* the first useFrame callback of Experience: <<i>> when it calls
\* onPhotoSelect(i), <<>> when it calls nothing
SelectorNoSuspend(mode, handData, particles, anchors) ==
    IF ~handData.isPresent \/ Len(particles) = 0 THEN <<>>
    ELSE LET best == Closest(anchors, Ndc(handData.position), 0, <<>>)
         IN  IF best # <<>> /\ WithinThreshold(best[1]) THEN <<best[2]>> ELSE <<>>

Selector(mode, handData, particles, anchors) ==
    IF mode = ZOOM THEN <<>>
    ELSE IF ~handData.isPresent \/ Len(particles) = 0 THEN <<>>
    ELSE LET best == Closest(anchors, Ndc(handData.position), 0, <<>>)
         IN  IF best # <<>> /\ WithinThreshold(best[1]) THEN <<best[2]>> ELSE <<>>

\* onPhotoSelect = setActivePhotoIndex: given the committed value while no
\* work is recorded on App it queues nothing
SelectorFrame(anchors) ==
    LET sel == Selector(appState, handDataRef, photoParticles, anchors)
        queues == sel # <<>> /\ ~(lanes = NoLanes /\ sel = <<activePhotoIndex>>)
    IN  /\ pendingIndex' = IF queues THEN sel ELSE pendingIndex
        /\ lanes' = IF queues THEN PendingLanes ELSE lanes
        /\ UNCHANGED <<serviceVars, stabilizerVars, handDataRef, refVars, committedVars,
                       updateQueue, pendingAppState, effectsPending,
                       landmarksIn, detected, rawIn, track, animated, frameIn>>

\* the projected anchors of a frame: on the centre of the screen, on the
\* threshold circle around it, in a corner of the screen
Near == (SelectNum * Unit) \div SelectDen
FrameAnchors == {Point(0, 0), Point(Near, 0), Point(-Unit, -Unit)}

\* a render tick; projection keeps the anchors the camera projected
RenderTick ==
    \E anchors \in [1 .. Len(photoParticles) -> FrameAnchors] :
        /\ projection' = anchors
        /\ SelectorFrame(anchors)

\* ---------------------------------------------------------- specification
\* gestures and the photo list, the hand held over the centre of the image
Next ==
    \/ CaptureTickOver(Frames(SteadyPalm, GestureShapes) \ {Missing})
    \/ Render
    \/ FlushEffects
    \/ \E n \in 1 .. MaxFiles : HandlePhotoUpload(n)
    \/ ClearPhotos

Spec == Init /\ [][Next]_vars

\* the capture pipeline with a moving hand, the photo list left empty
NextStabilizer ==
    \/ CaptureTickOver(Frames(MovingPalm, FrameShapes))
    \/ Render
    \/ FlushEffects

SpecStabilizer == Init /\ [][NextStabilizer]_vars

\* the scene between two capture ticks: the hand, lost and seen again one
\* frame ago, points at one of ScenePointers while the mode is any of the
\* three
ScenePointers == {Centre, Point(Half + 1, Half - 1), Point(Half - 1, Half + 1)}

InitScene ==
    /\ prevPositionRef \in ScenePointers
    /\ isHandPresent \in BOOLEAN
    /\ gestureHistoryRef = IF isHandPresent THEN <<OPEN_PALM>> ELSE <<>>
    /\ lastEmittedGestureRef = NONE
    /\ handDataRef =
           [gesture |-> NONE, position |-> prevPositionRef, isPresent |-> isHandPresent]
    /\ appState \in AppState
    /\ appStateRef = appState
    /\ photosRef = <<>>
    /\ photos = <<>>
    /\ currentGesture = NONE
    /\ activePhotoIndex = 0
    /\ photoParticles = <<>>
    /\ updateQueue = <<>>
    /\ pendingAppState = <<>>
    /\ pendingIndex = <<>>
    /\ lanes = NoLanes
    /\ effectsPending = FALSE
    /\ service = ServiceStarted
    /\ runtime = RuntimeStarted
    /\ environment = EnvironmentGranted
    /\ isMountedRef = TRUE
    /\ landmarksIn = Missing
    /\ detected = <<>>
    /\ projection = <<>>
    /\ rawIn = Centre
    /\ track = <<>>
    /\ animated = AnimatedInitial
    /\ frameIn = NoFrame

NextScene ==
    \/ RenderTick
    \/ RebuildParticles
    \/ Render
    \/ \E n \in 1 .. MaxFiles : HandlePhotoUpload(n)
    \/ ClearPhotos

SpecScene == InitScene /\ [][NextScene]_vars

\* the classifier alone: one call of detectGesture on no array, an empty
\* array or a hand in any combination of the tip poses and thumb poses
ClassifierInputs == {Missing, <<>>} \cup HandsOver({Centre}, ThumbPoses, TipPoses)

InitClassifier ==
    /\ InitSystem
    /\ landmarksIn \in ClassifierInputs
    /\ detected = <<>>
    /\ projection = <<>>
    /\ rawIn = Centre
    /\ track = <<>>
    /\ animated = AnimatedInitial
    /\ frameIn = NoFrame

Classify ==
    /\ detected = <<>>
    /\ detected' = <<DetectGesture(landmarksIn)>>
    /\ UNCHANGED <<serviceVars, stabilizerVars, handDataRef, refVars, committedVars, appPending,
                   effectsPending, landmarksIn, projection, rawIn, track, animated,
                   frameIn>>

NextClassifier == Classify

SpecClassifier == InitClassifier /\ [][NextClassifier]_vars

\* ------------------------------------------------------- capture service
\* new HandTrackingService(video, onResults): the hands it leaves, or
\* "thrown". The first declaration returns without one when the Hands class
\* is missing and catches what `new Hands` throws; the second throws.
Constructed(env) ==
    IF env.Hands = "loaded" THEN "ready"
    ELSE IF env.build = 1 THEN "null" ELSE "thrown"

\* startCamera throws what the constructor or start() has thrown: never,
\* its catch logs it
StartCameraRethrows(thrown) == thrown

StartCameraThrows(thrown) == FALSE

\* startCamera up to the constructor; when it throws `service` stays null
Construct ==
    /\ runtime.pc[1] = "new"
    /\ IF Constructed(environment) = "thrown"
       THEN /\ runtime' = [runtime EXCEPT !.pc[1] = "failed",
                                          !.escaped = @ \/ StartCameraThrows(TRUE)]
            /\ UNCHANGED service
       ELSE /\ service' = NewService(Constructed(environment))
            /\ runtime' = [runtime EXCEPT !.pc[1] = "constructed"]
    /\ UNCHANGED <<environment, isMountedRef, stabilizerVars, handDataRef, refVars,
                   committedVars, appPending, effectsPending, harnessVars>>

\* now - this.lastProcessTime < 33
ThrottledNever(now, lastProcessTime) == FALSE

Throttled(now, lastProcessTime) == now - lastProcessTime < ThrottleMs

\* this.animationFrameId = requestAnimationFrame(this.processFrame)
Requested(svc, run, k) ==
    [service |-> [svc EXCEPT !.animationFrameId = k],
     runtime |-> [run EXCEPT !.scheduled[k] = TRUE]]

\* processFrame in the chain of call k, up to its await or its end;
\* `ready` is videoElement.readyState >= 2. Only the first declaration
\* looks at hands.
ProcessFrame(svc, run, env, ready, k) ==
    IF ~svc.isRunning \/ (env.build = 1 /\ svc.hands = "null")
    THEN [service |-> svc, runtime |-> run]
    ELSE IF Throttled(run.now, svc.lastProcessTime) THEN Requested(svc, run, k)
    ELSE IF ready
    THEN [service |-> svc, runtime |-> [run EXCEPT !.send[k] = "pending"]]
    ELSE Requested(svc, run, k)

\* processFrame after `await this.hands.send(...)`: lastProcessTime when it
\* resolved, the catch when it rejected, then the next frame callback
AfterSend(svc, run, resolved, k) ==
    LET done == [svc EXCEPT !.lastProcessTime = IF resolved THEN run.now ELSE @]
        settled == [run EXCEPT !.send[k] = "none",
                               !.lastDone = IF resolved THEN <<run.now>> ELSE @]
    IN  IF done.isRunning THEN Requested(done, settled, k)
        ELSE [service |-> done, runtime |-> settled]

\* service.start() up to its first await: the first call is the call of
\* startCamera, a later one is made by another client once the calls
\* before it were made. Without navigator.mediaDevices the first
\* declaration returns with isRunning set; the second throws a TypeError
\* into its catch, which startCamera catches in turn. setPermissionGranted,
\* which only fades the preview in, is left out.
Callable(run, k) ==
    IF k = 1 THEN run.pc[1] = "constructed"
    ELSE /\ run.pc[k] = "uncalled"
         /\ run.pc[k - 1] \notin {"new", "constructed", "failed", "uncalled"}

Start(k) ==
    /\ Callable(runtime, k)
    /\ IF service.isRunning \/ (environment.build = 1 /\ service.hands = "null")
       THEN /\ runtime' = [runtime EXCEPT !.pc[k] = "done", !.lastCall = "start"]
            /\ UNCHANGED service
       ELSE IF environment.camera = "missing"
       THEN /\ service' = [service EXCEPT !.isRunning = (environment.build = 1)]
            /\ runtime' =
                   [runtime EXCEPT !.pc[k] = "done", !.lastCall = "start",
                                   !.escaped =
                                       @ \/ StartCameraThrows(environment.build = 2)]
       ELSE /\ service' = [service EXCEPT !.isRunning = TRUE]
            /\ runtime' = [runtime EXCEPT !.pc[k] = "awaitCamera",
                                          !.lastCall = "start"]
    /\ UNCHANGED <<environment, isMountedRef, stabilizerVars, handDataRef, refVars,
                   committedVars, appPending, effectsPending, harnessVars>>

\* getUserMedia settles: this.stream = stream, or the catch of start, which
\* throws again in the second declaration
CameraSettles(k) ==
    /\ runtime.pc[k] = "awaitCamera"
    /\ IF environment.camera = "granted"
       THEN /\ service' = [service EXCEPT !.stream = TRUE]
            /\ runtime' = [runtime EXCEPT !.pc[k] = "awaitMetadata"]
       ELSE /\ service' = [service EXCEPT !.isRunning = FALSE]
            /\ runtime' =
                   [runtime EXCEPT !.pc[k] = "done",
                                   !.escaped =
                                       @ \/ StartCameraThrows(environment.build = 2)]
    /\ UNCHANGED <<environment, isMountedRef, stabilizerVars, handDataRef, refVars,
                   committedVars, appPending, effectsPending, harnessVars>>

\* onloadedmetadata and play() settle: start calls processFrame() and
\* returns. When play() is refused the promise start awaits is never
\* resolved; the second declaration has no catch on play(), and the
\* rejection reaches the page unhandled.
MetadataSettles(k) ==
    /\ runtime.pc[k] = "awaitMetadata"
    /\ IF environment.play = "allowed"
       THEN \E ready \in BOOLEAN :
                LET next == ProcessFrame(service, [runtime EXCEPT !.pc[k] = "done"],
                                         environment, ready, k)
                IN  /\ service' = next.service
                    /\ runtime' = next.runtime
       ELSE /\ runtime' = [runtime EXCEPT !.pc[k] = "stuck",
                                          !.escaped = @ \/ environment.build = 2]
            /\ UNCHANGED service
    /\ UNCHANGED <<environment, isMountedRef, stabilizerVars, handDataRef, refVars,
                   committedVars, appPending, effectsPending, harnessVars>>

\* the browser runs the frame callback the chain of call k requested
FrameCallback(k) ==
    /\ runtime.scheduled[k]
    /\ \E ready \in BOOLEAN :
           LET next == ProcessFrame(service, [runtime EXCEPT !.scheduled[k] = FALSE],
                                    environment, ready, k)
           IN  /\ service' = next.service
               /\ runtime' = next.runtime
    /\ UNCHANGED <<environment, isMountedRef, stabilizerVars, handDataRef, refVars,
                   committedVars, appPending, effectsPending, harnessVars>>

\* what the engine finds in a frame: no hand, or a fist over the centre
ServiceFrames == Frames(SteadyPalm, {Shape({})}) \ {Missing}

\* if (!isMountedRef.current) return: the callback of the service goes on
\* past its first line
CallbackRunsUnmounted(mounted) == TRUE

CallbackRuns(mounted) == mounted

\* hands.send resolves: the engine has called onResults, whose callback
\* returns at once when isMountedRef.current is false. Whether a request in
\* flight when stop() closes the engine still resolves is the engine's
\* choice.
SendResolves(k) ==
    /\ runtime.send[k] = "pending"
    /\ environment.engine = "working"
    /\ \E multiHandLandmarks \in ServiceFrames :
           IF CallbackRuns(isMountedRef)
           THEN OnResults(multiHandLandmarks)
           ELSE UNCHANGED <<stabilizerVars, handDataRef, refVars, committedVars,
                            appPending, effectsPending, harnessVars>>
    /\ service' = AfterSend(service, runtime, TRUE, k).service
    /\ runtime' = [AfterSend(service, runtime, TRUE, k).runtime
                       EXCEPT !.late = @ \/ ~isMountedRef]
    /\ UNCHANGED <<environment, isMountedRef>>

\* hands.send rejects or throws
SendRejects(k) ==
    /\ runtime.send[k] = "pending"
    /\ service' = AfterSend(service, runtime, FALSE, k).service
    /\ runtime' = AfterSend(service, runtime, FALSE, k).runtime
    /\ UNCHANGED <<environment, isMountedRef, stabilizerVars, handDataRef, refVars,
                   committedVars, appPending, effectsPending, harnessVars>>

\* the promise of hands.send turns out never to settle
SendHangs(k) ==
    /\ runtime.send[k] = "pending"
    /\ runtime' = [runtime EXCEPT !.send[k] = "hung"]
    /\ UNCHANGED <<service, environment, isMountedRef, stabilizerVars, handDataRef,
                   refVars, committedVars, appPending, effectsPending, harnessVars>>

\* hands.close() throws out of stop(): never, it is called in a try block
\* whose catch is empty
CloseThrowsTwice(svc) == svc.hands = "closed"

CloseThrows(svc) == FALSE

\* the fields stop() leaves
Stopped(svc) ==
    [svc EXCEPT !.isRunning = FALSE, !.stream = FALSE,
                !.hands = IF @ = "null" THEN "null" ELSE "closed"]

\* cancelAnimationFrame(this.animationFrameId) when the id is set: the
\* callback it names is cancelled, if it is still pending
Cancelled(scheduled, id) == [k \in DOMAIN scheduled |-> scheduled[k] /\ k # id]

StopCall(svc, run) ==
    [run EXCEPT !.scheduled = Cancelled(@, svc.animationFrameId),
                !.stops = @ + 1, !.lastCall = "stop",
                !.escaped = @ \/ CloseThrows(svc)]

\* service.stop(), called by a client at any time
Stop ==
    /\ runtime.pc[1] \notin {"new", "failed"}
    /\ runtime.stops < MaxStops
    /\ service' = Stopped(service)
    /\ runtime' = StopCall(service, runtime)
    /\ UNCHANGED <<environment, isMountedRef, stabilizerVars, handDataRef, refVars,
                   committedVars, appPending, effectsPending, harnessVars>>

\* the cleanup of the effect of HandController, whose body has run
\* startCamera up to the first await of start:
\* isMountedRef.current = false; service?.stop()
Cleanup ==
    /\ runtime.pc[1] \notin {"new", "constructed"}
    /\ isMountedRef
    /\ isMountedRef' = FALSE
    /\ IF runtime.pc[1] = "failed"
       THEN UNCHANGED <<service, runtime>>
       ELSE /\ service' = Stopped(service)
            /\ runtime' = StopCall(service, runtime)
    /\ UNCHANGED <<environment, stabilizerVars, handDataRef, refVars, committedVars,
                   appPending, effectsPending, harnessVars>>

\* time passes
ClockTick ==
    /\ runtime.now + ClockStep <= MaxClock
    /\ runtime' = [runtime EXCEPT !.now = @ + ClockStep]
    /\ UNCHANGED <<service, environment, isMountedRef, stabilizerVars, handDataRef,
                   refVars, committedVars, appPending, effectsPending, harnessVars>>

InitService ==
    /\ InitReact
    /\ service = NewService("null")
    /\ runtime = NewRuntime
    /\ environment \in Environments
    /\ isMountedRef = TRUE
    /\ landmarksIn = Missing
    /\ detected = <<>>
    /\ projection = <<>>
    /\ rawIn = Centre
    /\ track = <<>>
    /\ animated = AnimatedInitial
    /\ frameIn = NoFrame

\* the steps of call k of start() and of the chain it begins
CallStep(k) ==
    \/ Start(k)
    \/ CameraSettles(k)
    \/ MetadataSettles(k)
    \/ FrameCallback(k)
    \/ SendResolves(k)
    \/ SendRejects(k)

\* HandController with its service: start() is called once, by startCamera
ServiceStep ==
    \/ Construct
    \/ CallStep(1)

NextService ==
    \/ ServiceStep
    \/ SendHangs(1)
    \/ Stop
    \/ Cleanup
    \/ ClockTick
    \/ Render

SpecService == InitService /\ [][NextService]_vars

\* the event loop runs every callback and continuation that is ready: the
\* steps of startCamera, the frame callback requested, the continuation of
\* a request that settles
SpecServiceFair == SpecService /\ WF_vars(ServiceStep)

\* A service whose clients call start() up to MaxStarts times and stop()
\* at any time, with the camera granted, the engine working and the
\* controller mounted.
InitRestart ==
    /\ InitService
    /\ environment.Hands = "loaded"
    /\ environment.camera = "granted"
    /\ environment.engine = "working"
    /\ environment.play = "allowed"

NextRestart ==
    \/ Construct
    \/ \E k \in Calls : CallStep(k)
    \/ Stop
    \/ ClockTick
    \/ Render

SpecRestart == InitRestart /\ [][NextRestart]_vars

\* ------------------------------------------------ position smoothing alone
\* The smoothing block under a hand held still, on a grid fine enough for
\* SmoothTicks steps to be exact: a coordinate is a multiple of
\* 1 / (SmoothGrid * FineUnit) of the image.
FineUnit == Pow(SmoothDen, SmoothTicks)
SmoothCoords == {c * FineUnit : c \in 0 .. SmoothGrid}
SmoothPoints == {Point(x, y) : x \in SmoothCoords, y \in SmoothCoords}

InitSmoothing ==
    /\ InitSystem
    /\ landmarksIn = Missing
    /\ detected = <<>>
    /\ projection = <<>>
    /\ animated = AnimatedInitial
    /\ frameIn = NoFrame
    /\ rawIn \in SmoothPoints
    /\ \E c \in SmoothCoords : track = <<Point(c, FineUnit * SmoothGrid - c)>>

\* one frame with the hand at rawIn
SmoothTick ==
    LET prev == track[Len(track)]
    IN  /\ Len(track) <= SmoothTicks
        /\ ExactLerp(prev.x, rawIn.x)
        /\ ExactLerp(prev.y, rawIn.y)
        /\ track' = Append(track, Smooth(TRUE, prev, rawIn.x, rawIn.y))
        /\ UNCHANGED <<serviceVars, stabilizerVars, handDataRef, refVars, committedVars, appPending,
                       effectsPending, landmarksIn, detected, projection, rawIn,
                       animated, frameIn>>

NextSmoothing == SmoothTick

SpecSmoothing == InitSmoothing /\ [][NextSmoothing]_vars

\* ----------------------------------------------------------- animator alone
\* The two animator callbacks of one render tick around one mode switch:
\* the hand has shown NONE and the stabilizer emits `gesture`, which
\* onHandUpdateProxy evaluates at once against the committed state.
AnimatorEdge(gesture) ==
    GestureUpdater(NONE, [gesture |-> gesture, isPresent |-> TRUE], appState, photos)

InitAnimator ==
    /\ prevPositionRef = Centre
    /\ lastEmittedGestureRef \in HandGesture \ {NONE}
    /\ gestureHistoryRef = [i \in 1 .. Majority |-> lastEmittedGestureRef]
    /\ handDataRef =
           [gesture |-> lastEmittedGestureRef, position |-> Centre, isPresent |-> TRUE]
    /\ appState \in AppState
    /\ appStateRef = appState
    /\ photos \in UNION {[1 .. n -> {"blob"}] : n \in 0 .. MaxPhotos}
    /\ photosRef = photos
    /\ isHandPresent = TRUE
    /\ currentGesture = NONE
    /\ activePhotoIndex \in {i \in 0 .. MaxPhotos : i = 0 \/ i < Len(photos)}
    /\ photoParticles = Rebuild(photos)
    /\ updateQueue =
           <<[gesture |-> lastEmittedGestureRef, isPresent |-> TRUE, evaluated |-> TRUE]>>
    /\ pendingAppState =
           IF AnimatorEdge(lastEmittedGestureRef).set = <<appState>>
           THEN <<>> ELSE AnimatorEdge(lastEmittedGestureRef).set
    /\ pendingIndex = <<>>
    /\ lanes = PendingLanes
    /\ effectsPending = FALSE
    /\ service = ServiceStarted
    /\ runtime = RuntimeStarted
    /\ environment = EnvironmentGranted
    /\ isMountedRef = TRUE
    /\ landmarksIn = Missing
    /\ detected = <<>>
    /\ projection = <<>>
    /\ rawIn = Centre
    /\ track = <<>>
    /\ animated \in {AnimatedInitial,
                      [AnimatedInitial EXCEPT !.ornament = OrnamentData.treePos,
                                              !.photo = PhotoData.treePos]}
    /\ frameIn = NoFrame

\* the useFrame callbacks of InstancedOrnaments and PhotoDisplay on one
\* render tick whose delta is one of `deltas`; a photo is animated while
\* its PhotoDisplay is mounted
AnimatorFrameOver(deltas) ==
    \E delta \in deltas, sway \in Sway :
        /\ frameIn.ticks < AnimTicks
        /\ frameIn' = [delta |-> delta, sway |-> sway, mode |-> appState,
                       ticks |-> frameIn.ticks + 1]
        /\ animated' =
               [ornament |-> AnimLerp(animated.ornament, OrnamentTarget(appState, sway),
                                      LerpSpeed(appState, delta)),
                ornamentScale |-> AnimLerp(animated.ornamentScale,
                                           OrnamentScaleTarget(appState), delta * 3),
                photo |-> IF Len(photoParticles) > 0
                          THEN AnimLerp(animated.photo,
                                        PhotoTarget(appState, 0 = activePhotoIndex, sway),
                                        delta * 3)
                          ELSE animated.photo,
                photoScale |-> IF Len(photoParticles) > 0
                               THEN AnimLerp(animated.photoScale,
                                             PhotoScaleTarget(appState,
                                                              0 = activePhotoIndex),
                                             delta * 4)
                               ELSE animated.photoScale]
        /\ UNCHANGED <<serviceVars, stabilizerVars, handDataRef, refVars, committedVars, appPending,
                       effectsPending, landmarksIn, detected, projection, rawIn, track>>

\* a frame that follows the last within MaxDelta parts of a second
AnimatorFrame == AnimatorFrameOver(1 .. MaxDelta)

NextAnimator == AnimatorFrame \/ Render \/ FlushEffects

SpecAnimator == InitAnimator /\ [][NextAnimator]_vars

\* a frame that follows the last after up to LongDelta parts of a second,
\* as the first frame does after the page was hidden or the thread was
\* busy: the clock of the frame loop puts no limit on delta
LateFrame == AnimatorFrameOver(1 .. LongDelta)

NextTiming == LateFrame \/ Render \/ FlushEffects

SpecTiming == InitAnimator /\ [][NextTiming]_vars

\* ------------------------------------------- capture ticks and render ticks
\* The capture pipeline and the frame callbacks of the scene side by side:
\* one photo uploaded and its photo object built, a hand that comes and
\* goes over the centre of the image, and the selector and the animator
\* running between the capture ticks.
InitFrames ==
    /\ prevPositionRef = Centre
    /\ gestureHistoryRef = <<>>
    /\ lastEmittedGestureRef = NONE
    /\ handDataRef = [gesture |-> NONE, position |-> Centre, isPresent |-> FALSE]
    /\ appState = TREE
    /\ appStateRef = appState
    /\ photos = <<"blob">>
    /\ photosRef = photos
    /\ isHandPresent = FALSE
    /\ currentGesture = NONE
    /\ activePhotoIndex = 0
    /\ photoParticles = Rebuild(photos)
    /\ updateQueue = <<>>
    /\ pendingAppState = <<>>
    /\ pendingIndex = <<>>
    /\ lanes = NoLanes
    /\ effectsPending = FALSE
    /\ service = ServiceStarted
    /\ runtime = RuntimeStarted
    /\ environment = EnvironmentGranted
    /\ isMountedRef = TRUE
    /\ landmarksIn = Missing
    /\ detected = <<>>
    /\ projection = <<>>
    /\ rawIn = Centre
    /\ track = <<>>
    /\ animated = AnimatedInitial
    /\ frameIn = NoFrame

NextFrames ==
    \/ CaptureTickOver(Frames(SteadyPalm, {Shape({})}))
    \/ RenderTick
    \/ AnimatorFrame
    \/ Render

SpecFrames == InitFrames /\ [][NextFrames]_vars

\* ================================================================= claims
\* a label that fills Majority slots of the history, if any: <<L>> or <<>>
MajorityLabel(history) ==
    IF \E L \in HandGesture : Count(history, L) >= Majority
    THEN <<CHOOSE L \in HandGesture : Count(history, L) >= Majority>>
    ELSE <<>>

\* C1: in every state the stabilizer has published (the one App holds in
\* handDataRef, starting with its initial value, and the ones queued for
\* the next render), isPresent = false implies gesture = NONE.
C1_AbsentImpliesNone ==
    /\ ~handDataRef.isPresent => handDataRef.gesture = NONE
    /\ \A i \in DOMAIN updateQueue :
           ~updateQueue[i].isPresent => updateQueue[i].gesture = NONE

\* an absent state was published after the hand had been seen and had moved
\* the pointer with a gesture emitted
C1_Witness ==
    /\ ~handDataRef.isPresent
    /\ handDataRef.position # Centre
    /\ currentGesture # NONE

\* C2: a step that publishes an absent state right after a present one
\* (the first frame without a hand after a run of frames with one) leaves
\* the history empty and the emitted gesture NONE, in the ref and in the
\* published state.
C2_LossIsImmediate ==
    [][(handDataRef.isPresent /\ ~handDataRef'.isPresent)
          => /\ gestureHistoryRef' = <<>>
             /\ lastEmittedGestureRef' = NONE
             /\ handDataRef'.gesture = NONE]_vars

\* the hand was lost while the committed state still shows it present with
\* a gesture: one absent frame emptied the history
C2_Witness ==
    /\ ~handDataRef.isPresent
    /\ isHandPresent
    /\ currentGesture # NONE
    /\ gestureHistoryRef = <<>>
    /\ lastEmittedGestureRef = NONE

TableTarget(gesture) ==
    IF gesture = FIST THEN TREE
    ELSE IF gesture = OPEN_PALM THEN SCATTER
    ELSE ZOOM

\* the i-th queued update is an edge: its gesture differs from the one
\* emitted before it
QueuedEdge(i) ==
    updateQueue[i].gesture #
        (IF i = 1 THEN currentGesture ELSE updateQueue[i - 1].gesture)

\* the table applied to the mode and photo list it is given
TableNext(gesture, mode, photoList) ==
    IF gesture = FIST THEN TREE
    ELSE IF gesture = OPEN_PALM THEN SCATTER
    ELSE IF gesture = TWO_FINGERS /\ mode = SCATTER /\ Len(photoList) > 0 THEN ZOOM
    ELSE mode

\* a capture tick observes an edge to `gesture`
EdgeTo(gesture) ==
    /\ lastEmittedGestureRef' # lastEmittedGestureRef
    /\ lastEmittedGestureRef' = gesture

\* C4: the committed mode changes only in a step that applies a queued
\* edge to a gesture other than NONE, published with the hand present, and
\* then to the mode the table gives that gesture; so a tick that repeats
\* the emitted gesture, an edge to NONE, an upload, a clear or an effect
\* never changes it.
C4_ModeChangesOnlyOnEdges ==
    [][appState' # appState
          => \E i \in DOMAIN updateQueue :
                 /\ QueuedEdge(i)
                 /\ updateQueue[i].gesture # NONE
                 /\ updateQueue[i].isPresent
                 /\ appState' = TableTarget(updateQueue[i].gesture)]_vars

\* the mode went to FOCUSED by edges, and the frames that kept repeating
\* TWO_FINGERS until the history was full of it queued nothing
C4_Witness ==
    /\ appState = ZOOM
    /\ currentGesture = TWO_FINGERS
    /\ Count(gestureHistoryRef, TWO_FINGERS) = HistoryLen
    /\ lanes = NoLanes
    /\ ~effectsPending

\* C5: after a tick that observes a FIST edge the mode React commits is
\* ASSEMBLED, and after one that observes an OPEN_PALM edge it is
\* SCATTERED, whatever the mode was.
C5_FistAndOpenPalmEdges ==
    [][/\ EdgeTo(FIST) => RenderedAppState' = TREE
       /\ EdgeTo(OPEN_PALM) => RenderedAppState' = SCATTER]_vars

\* C6: after a tick that observes a TWO_FINGERS edge the mode React commits
\* is FOCUSED exactly when the mode before the tick was SCATTERED and the
\* photo list is not empty, and the mode before the tick otherwise.
C6_TwoFingersEdge ==
    [][EdgeTo(TWO_FINGERS)
          => RenderedAppState' =
                 IF RenderedAppState = SCATTER /\ Len(photos) > 0
                 THEN ZOOM ELSE RenderedAppState]_vars

\* C7: the mode React commits after a tick that observes an edge is the one
\* the table gives for the mode produced by everything before the tick and
\* the photo list as it is, in every interleaving of ticks, renders,
\* effects, uploads and clears.
C7_GuardsReadCurrentState ==
    [][lastEmittedGestureRef' # lastEmittedGestureRef
          => RenderedAppState' =
                 TableNext(lastEmittedGestureRef', RenderedAppState, photos)]_vars

\* ---------------------------------------------------------------- selector
\* a render tick that projected other anchors than the tick before it
SelectorRan == projection' # projection

\* the step makes no selection callback that changes anything
NothingReported == pendingIndex' = pendingIndex /\ activePhotoIndex' = activePhotoIndex

\* the selection index React shows once it has rendered
ShownIndex == IF pendingIndex # <<>> THEN pendingIndex[1] ELSE activePhotoIndex

\* C8, as the code has it: a render tick while the mode is FOCUSED makes no
\* selection callback and leaves the selection index and the selection
\* queued as they are; the selector is suspended in no other mode.
C8_SuspendedWhileFocused ==
    [][SelectorRan /\ appState = ZOOM => NothingReported]_vars

\* a render tick ran in FOCUSED with the pointer on the anchor of photo 1
\* while photo 0 is selected and nothing is queued
C8_Witness ==
    /\ appState = ZOOM
    /\ handDataRef.isPresent
    /\ handDataRef.position = Centre
    /\ Len(projection) = 2
    /\ projection[2] = Point(0, 0)
    /\ projection[1] # Point(0, 0)
    /\ activePhotoIndex = 0
    /\ pendingIndex = <<>>

\* C8, as stated: a render tick while the mode is not SCATTERED (ASSEMBLED
\* or FOCUSED) makes no selection callback.
C8_OnlyWhileScattered ==
    [][SelectorRan /\ appState # SCATTER => NothingReported]_vars

\* C9: on a render tick outside FOCUSED with the hand present and at least
\* one photo, let d(i) be the squared distance of anchor i to the pointer
\* (2 px - 1, 1 - 2 py) and w the lowest index of minimal d: when d(w) is
\* strictly below 0.4 squared, the index React shows next is w; otherwise
\* nothing is reported and the index keeps its value.
C9_NearestWithinThreshold ==
    [][(/\ SelectorRan
        /\ appState # ZOOM
        /\ handDataRef.isPresent
        /\ Len(photoParticles) > 0)
          => LET px == handDataRef.position.x
                 py == handDataRef.position.y
                 d(i) == Sq(projection'[i].x - (2 * px - Unit))
                             + Sq(projection'[i].y - (Unit - 2 * py))
                 nearest == {i \in DOMAIN projection' :
                                \A j \in DOMAIN projection' : d(i) <= d(j)}
                 w == CHOOSE i \in nearest : \A j \in nearest : i <= j
             IN  IF Sq(SelectDen) * d(w) < Sq(SelectNum) * Sq(Unit)
                 THEN ShownIndex' = w - 1
                 ELSE NothingReported]_vars

\* two photos at the same distance from the pointer, inside the threshold:
\* the selection went from photo 1 to photo 0
C9_Witness ==
    /\ appState # ZOOM
    /\ handDataRef.isPresent
    /\ Len(projection) = 2
    /\ projection[1] = projection[2]
    /\ Ndc(handDataRef.position) # projection[1]
    /\ WithinThreshold(Dist2(projection[1], Ndc(handDataRef.position)))
    /\ activePhotoIndex = 1
    /\ pendingIndex = <<0>>

\* -------------------------------------------------------------- classifier
\* the four fold flags of a landmark set
FoldFlags(landmarks) == [t \in Tips |-> IsFingerFolded(landmarks, t, PipOf(t))]

\* the classification the table gives four fold flags
TableGesture(flags) ==
    IF ~flags[8] /\ ~flags[12] /\ flags[16] /\ flags[20] THEN TWO_FINGERS
    ELSE IF Cardinality({t \in Tips : flags[t]}) >= 3 THEN FIST
    ELSE OPEN_PALM

\* C10: detectGesture returns NONE when given no array or an empty one,
\* and for a landmark set the gesture the table gives its four fold flags,
\* never NONE; two landmark sets with the same flags, whatever their
\* thumbs, get the same gesture.
C10_DetectGestureTable ==
    detected # <<>>
        => IF landmarksIn = Missing \/ landmarksIn = <<>>
           THEN detected[1] = NONE
           ELSE /\ detected[1] = TableGesture(FoldFlags(landmarksIn))
                /\ detected[1] # NONE
                /\ \A other \in ClassifierInputs \ {Missing, <<>>} :
                       FoldFlags(other) = FoldFlags(landmarksIn)
                           => DetectGesture(other) = detected[1]

\* a hand with exactly two fingers folded that is not the victory sign,
\* one of them at the edge of the fold margin, classified OPEN_PALM
C10_Witness ==
    /\ detected = <<OPEN_PALM>>
    /\ landmarksIn \notin {Missing, <<>>}
    /\ Cardinality({t \in Tips : FoldFlags(landmarksIn)[t]}) = 2
    /\ landmarksIn[8] = TipLevel
    /\ landmarksIn[12] = TipEdge

\* -------------------------------------------------------------- stabilizer
\* C15: a step that publishes a state without a hand leaves the smoothed
\* position exactly as it was, and the published position is that value:
\* the last smoothed value of the run before, not the centre.
C15_PositionFrozenOnLoss ==
    [][~handDataRef'.isPresent
          => /\ prevPositionRef' = prevPositionRef
             /\ handDataRef'.position = prevPositionRef]_vars

\* the hand was lost away from the centre and the update of the absent
\* frame has been rendered
C15_Witness ==
    /\ ~handDataRef.isPresent
    /\ ~isHandPresent
    /\ lanes # PendingLanes
    /\ prevPositionRef # Centre
    /\ handDataRef.position = prevPositionRef

\* the last n elements of a sequence, all of them when it has fewer
LastOf(seq, n) ==
    IF Len(seq) <= n THEN seq ELSE SubSeq(seq, Len(seq) - n + 1, Len(seq))

\* C18: the history never holds more than HistoryLen labels and is empty
\* whenever the last published frame had no hand; a tick with a hand
\* leaves the last HistoryLen labels of the history with the new raw label
\* appended, in arrival order.
C18_HistoryWindow ==
    [][/\ Len(gestureHistoryRef') <= HistoryLen
       /\ ~handDataRef'.isPresent => gestureHistoryRef' = <<>>
       /\ (handDataRef'.isPresent /\ stabilizerVars' # stabilizerVars)
             => \E g \in HandGesture \ {NONE} :
                    gestureHistoryRef' =
                        LastOf(Append(gestureHistoryRef, g), HistoryLen)]_vars

\* a full history whose oldest label was evicted: it starts and ends with
\* labels that differ from the majority
C18_Witness ==
    /\ Len(gestureHistoryRef) = HistoryLen
    /\ gestureHistoryRef[1] = TWO_FINGERS
    /\ gestureHistoryRef[2] = FIST
    /\ gestureHistoryRef[HistoryLen] = OPEN_PALM
    /\ lastEmittedGestureRef = FIST

\* C19: while the current presence run has fewer than Majority frames (the
\* history is as long as the run until it is full) the emitted gesture is
\* NONE, whatever was emitted before the hand was lost.
C19_GainNotTrusted ==
    Len(gestureHistoryRef) < Majority
        => lastEmittedGestureRef = NONE /\ handDataRef.gesture = NONE

\* two FIST frames into a new run with NONE emitted, after a run in which
\* OPEN_PALM was emitted and scattered the scene
C19_Witness ==
    /\ gestureHistoryRef = <<FIST, FIST>>
    /\ lastEmittedGestureRef = NONE
    /\ handDataRef.isPresent
    /\ appState = SCATTER

\* C16: under a hand held still every frame moves the smoothed position by
\* exactly 1 / SmoothDen of the gap to the raw position on each axis; the
\* gap shrinks by (SmoothDen - 1) / SmoothDen a frame, keeps its sign (no
\* overshoot), and after SmoothTicks frames it is below 3/4 of the first gap.
Gap(n) == Point(rawIn.x - track[n].x, rawIn.y - track[n].y)
Abs(n) == IF n < 0 THEN -n ELSE n
SameSide(gap, before) == (before >= 0 => gap >= 0) /\ (before <= 0 => gap <= 0)

C16_TenthOfGap ==
    /\ \A n \in 1 .. Len(track) - 1 :
          /\ SmoothDen * (track[n + 1].x - track[n].x) = Gap(n).x
          /\ SmoothDen * (track[n + 1].y - track[n].y) = Gap(n).y
          /\ SmoothDen * Gap(n + 1).x = (SmoothDen - 1) * Gap(n).x
          /\ SmoothDen * Gap(n + 1).y = (SmoothDen - 1) * Gap(n).y
          /\ SameSide(Gap(n + 1).x, Gap(n).x)
          /\ SameSide(Gap(n + 1).y, Gap(n).y)
          /\ Pow(SmoothDen, n) * Gap(n + 1).x = Pow(SmoothDen - 1, n) * Gap(1).x
          /\ Pow(SmoothDen, n) * Gap(n + 1).y = Pow(SmoothDen - 1, n) * Gap(1).y
    /\ Len(track) = SmoothTicks + 1
          => /\ 4 * Abs(Gap(Len(track)).x) <= 3 * Abs(Gap(1).x)
             /\ 4 * Abs(Gap(Len(track)).y) <= 3 * Abs(Gap(1).y)

\* SmoothTicks frames towards a raw position right of and above the start
C16_Witness ==
    /\ Len(track) = SmoothTicks + 1
    /\ Gap(1).x > 0
    /\ Gap(1).y < 0
    /\ Gap(Len(track)).x > 0
    /\ Gap(Len(track)).y < 0

\* C17: a step that changes the mode leaves the animated positions as they
\* are; a frame of the animator moves the ornament and every mounted photo
\* by exactly (target - current) * rate * delta, the rate 3 a second for
\* an ornament in TREE and for a photo and 2 a second for an ornament in
\* the other modes, so that no frame jumps further than that step; nothing
\* else moves them.
AnimatorRate(mode) == IF mode = TREE THEN 3 ELSE 2

C17_StepIsProportional ==
    [][/\ appState' # appState => animated' = animated
       /\ frameIn' = frameIn => animated' = animated
       /\ frameIn' # frameIn
             => /\ AnimDen * (animated'.ornament - animated.ornament)
                       = (OrnamentTarget(appState, frameIn'.sway) - animated.ornament)
                             * AnimatorRate(appState) * frameIn'.delta
                /\ Len(photoParticles) > 0
                       => AnimDen * (animated'.photo - animated.photo)
                              = (PhotoTarget(appState, 0 = activePhotoIndex, frameIn'.sway)
                                     - animated.photo) * 3 * frameIn'.delta
                /\ Len(photoParticles) = 0 => animated'.photo = animated.photo]_vars

\* the mode has gone from SCATTER to ZOOM after a frame that left the photo
\* and the ornament in flight
C17_Witness ==
    /\ frameIn.ticks > 0
    /\ frameIn.mode = SCATTER
    /\ appState = ZOOM
    /\ Len(photoParticles) > 0
    /\ animated.photo # PhotoTarget(SCATTER, 0 = activePhotoIndex, frameIn.sway)
    /\ animated.ornament # OrnamentTarget(SCATTER, frameIn.sway)

\* C11: once stop() is the last call made on the service and the steps of
\* start and the request that were pending have completed, the service
\* holds no stream and no frame callback is requested; and no request is
\* issued while stop() is the last call made.
Settled(run) == run.pc[1] \in {"constructed", "done"} /\ run.send[1] = "none"

C11_StopReleasesEverything ==
    [][/\ (runtime'.lastCall = "stop" /\ Settled(runtime'))
              => ~service'.stream /\ ~runtime'.scheduled[1]
       /\ (runtime.lastCall = "stop" /\ runtime'.lastCall = "stop")
              => ~(runtime.send[1] # "pending" /\ runtime'.send[1] = "pending")]_vars

\* C12: a call of stop(), before start() as well as after it and after
\* another stop(), lets no error out and leaves isRunning false and no
\* stream; when stop() was the last call made, it leaves isRunning as it
\* was and, where no stream was held, the whole service and the frame
\* callback as they were.
StopStep == runtime'.stops = runtime.stops + 1

C12_StopIsIdempotent ==
    [][StopStep
          => /\ runtime'.escaped = runtime.escaped
             /\ ~service'.isRunning
             /\ ~service'.stream
             /\ runtime.lastCall = "stop"
                    => /\ service'.isRunning = service.isRunning
                       /\ ~service.stream
                              => /\ service' = service
                                 /\ runtime'.scheduled[1] = runtime.scheduled[1]]_vars

\* stop() called twice on a service that was never started
C12_Witness ==
    /\ runtime.pc[1] = "constructed"
    /\ runtime.stops = 2
    /\ runtime.lastCall = "stop"
    /\ service.hands = "closed"

\* C13: a request that rejects changes nothing the stabilizer or App holds,
\* lets no error out and, while the service runs, leaves the next frame
\* callback requested; and while the service runs a request that hangs is
\* followed by a frame callback requested (or by the service stopping).
RejectStep ==
    /\ runtime.send[1] = "pending"
    /\ runtime'.send[1] = "none"
    /\ runtime'.lastDone = runtime.lastDone

C13_FailedOrHungStillTicks ==
    /\ [][RejectStep
             => /\ stabilizerVars' = stabilizerVars
                /\ handDataRef' = handDataRef
                /\ appPending' = appPending
                /\ runtime'.escaped = runtime.escaped
                /\ service'.isRunning => runtime'.scheduled[1]]_vars
    /\ (service.isRunning /\ runtime.send[1] = "hung")
           ~> (runtime.scheduled[1] \/ ~service.isRunning)

\* the part of C13 about requests that reject, which holds
C13_RejectedStillTicks ==
    [][RejectStep
          => /\ stabilizerVars' = stabilizerVars
             /\ handDataRef' = handDataRef
             /\ appPending' = appPending
             /\ runtime'.escaped = runtime.escaped
             /\ service'.isRunning => runtime'.scheduled[1]]_vars

\* C14: when the Hands class is missing or cannot be constructed, the
\* camera is missing or denied, or the engine fails every request, and
\* nothing else goes wrong, no error reaches the page, the hand state App
\* holds stays absent with gesture NONE, and the mode stays TREE.
Unavailable(env) ==
    /\ env.Hands # "loaded" \/ env.camera # "granted" \/ env.engine = "failing"
    /\ env.play = "allowed"

C14_DegradesToNoHand ==
    Unavailable(environment)
        => /\ ~runtime.escaped
           /\ handDataRef = [gesture |-> NONE, position |-> Centre, isPresent |-> FALSE]
           /\ ~isHandPresent
           /\ currentGesture = NONE
           /\ appState = TREE

\* the camera was denied to the second declaration, whose start() threw
C14_Witness ==
    /\ environment.build = 2
    /\ environment.Hands = "loaded"
    /\ environment.camera = "denied"
    /\ runtime.pc[1] = "done"
    /\ ~service.isRunning

\* C20: a request is issued by a running service with no request in
\* flight and ThrottleMs or more after the last request that succeeded
\* completed; and while less time has passed, a frame callback that runs
\* leaves the service as it was, with the next callback requested.
IssueStep == runtime.send[1] # "pending" /\ runtime'.send[1] = "pending"

SinceLastDone(run) == IF run.lastDone = <<>> THEN ThrottleMs ELSE run.now - run.lastDone[1]

C20_RequestsAreGated ==
    [][/\ IssueStep
             => /\ service.isRunning
                /\ runtime.send[1] = "none"
                /\ SinceLastDone(runtime) >= ThrottleMs
       /\ (/\ runtime.scheduled[1]
           /\ service.isRunning
           /\ service'.isRunning
           /\ SinceLastDone(runtime) < ThrottleMs
           /\ runtime'.now = runtime.now)
             => /\ runtime'.scheduled[1]
                /\ service' = service
                /\ runtime'.send[1] = runtime.send[1]
                /\ stabilizerVars' = stabilizerVars
                /\ handDataRef' = handDataRef]_vars

\* a second request issued, ThrottleMs or more after the first succeeded
C20_Witness ==
    /\ runtime.send[1] = "pending"
    /\ runtime.lastDone # <<>>
    /\ runtime.now - runtime.lastDone[1] >= ThrottleMs
    /\ handDataRef.isPresent

\* the labels that share the highest count of a history, and the place
\* where a label is first met when the counts are iterated, which is
\* where it first occurs in the history
TopLabels(history) ==
    {g \in HandGesture :
        /\ Count(history, g) > 0
        /\ \A h \in HandGesture : Count(history, h) <= Count(history, g)}

FirstMet(history, g) ==
    CHOOSE i \in DOMAIN history :
        history[i] = g /\ \A j \in 1 .. i - 1 : history[j] # g

\* C24, as the code has it: when two or more labels share the highest
\* count of the history, the dominant label is the one of them met last
\* in iteration order.
C24_TieKeepsLastMet ==
    (gestureHistoryRef # <<>> /\ Cardinality(TopLabels(gestureHistoryRef)) > 1)
        => /\ Dominant(gestureHistoryRef) \in TopLabels(gestureHistoryRef)
           /\ \A g \in TopLabels(gestureHistoryRef) :
                  FirstMet(gestureHistoryRef, g)
                      <= FirstMet(gestureHistoryRef, Dominant(gestureHistoryRef))

\* two labels with two frames each, the first of them met first, and a
\* third label with one frame met last
C24_Witness ==
    /\ gestureHistoryRef = <<FIST, OPEN_PALM, FIST, OPEN_PALM, TWO_FINGERS>>
    /\ Dominant(gestureHistoryRef) = OPEN_PALM
    /\ lastEmittedGestureRef = NONE

\* C24, as stated: when two or more labels share the highest count of the
\* history, the dominant label is the one of them met first in iteration
\* order.
C24_TieKeepsFirstMet ==
    (gestureHistoryRef # <<>> /\ Cardinality(TopLabels(gestureHistoryRef)) > 1)
        => /\ Dominant(gestureHistoryRef) \in TopLabels(gestureHistoryRef)
           /\ \A g \in TopLabels(gestureHistoryRef) :
                  FirstMet(gestureHistoryRef, Dominant(gestureHistoryRef))
                      <= FirstMet(gestureHistoryRef, g)

\* C29: a step that leaves the hand present after a gesture other than
\* NONE was emitted leaves a gesture other than NONE emitted and
\* published: within a presence run the emitted gesture goes back to NONE
\* only on a frame with no hand.
C29_NoReturnToNone ==
    [][(lastEmittedGestureRef # NONE /\ handDataRef'.isPresent)
          => /\ lastEmittedGestureRef' # NONE
             /\ handDataRef'.gesture # NONE]_vars

\* OPEN_PALM is still emitted in a run whose last five frames give no
\* label three slots and end with another label
C29_Witness ==
    /\ Len(gestureHistoryRef) = HistoryLen
    /\ MajorityLabel(gestureHistoryRef) = <<>>
    /\ gestureHistoryRef[HistoryLen] = FIST
    /\ lastEmittedGestureRef = OPEN_PALM
    /\ handDataRef.gesture = OPEN_PALM
    /\ handDataRef.isPresent

\* C23: once the controller is unmounted, no step changes the smoothing and
\* debounce state or the hand state published to App, and none queues an
\* update of App, a step that delivers the result of a request included.
C23_NothingAfterUnmount ==
    [][~isMountedRef
          => /\ stabilizerVars' = stabilizerVars
             /\ handDataRef' = handDataRef
             /\ updateQueue' \in {updateQueue, <<>>}]_vars

\* a request in flight at the unmount has resolved after it, ThrottleMs or
\* more after the request before it, which had found a hand
C23_Witness ==
    /\ ~isMountedRef
    /\ runtime.late
    /\ runtime.lastDone # <<>>
    /\ runtime.lastDone[1] >= ThrottleMs
    /\ handDataRef.isPresent

\* C28: at most one call of start() has a chain of processFrame alive: at
\* most one request is outstanding and at most one frame callback is
\* requested, whatever calls of start() and stop() were made.
Outstanding(run) == {k \in Calls : run.send[k] # "none"}

Pending(run) == {k \in Calls : run.scheduled[k]}

C28_AtMostOneLoop ==
    /\ Cardinality(Outstanding(runtime)) <= 1
    /\ Cardinality(Pending(runtime)) <= 1
    /\ Cardinality(Outstanding(runtime) \cup Pending(runtime)) <= 1

\* C25: in a state where React has nothing left to render, an emitted
\* gesture of FIST goes with the mode ASSEMBLED and an emitted gesture of
\* OPEN_PALM with the mode SCATTERED.
NothingPending == updateQueue = <<>> /\ pendingAppState = <<>> /\ lanes = NoLanes

C25_GestureAgreesWithMode ==
    NothingPending
        => /\ lastEmittedGestureRef = FIST => appState = TREE
           /\ lastEmittedGestureRef = OPEN_PALM => appState = SCATTER

\* C26: while the mode is FOCUSED the photo list is not empty.
C26_FocusedHasPhoto == appState = ZOOM => Len(photos) > 0

\* C27: the selection index is 0 or the index of a photo of the list, in
\* every state the uploads, clears, renders, rebuilds and render ticks
\* lead to.
C27_IndexInRange == activePhotoIndex = 0 \/ activePhotoIndex < Len(photos)

\* C21: the hand state App holds is at every moment the one the stabilizer
\* published last; a step that changes it is a capture tick, which runs no
\* frame callback; a render tick (selector, animator) leaves it and the
\* stabilizer as they are, and the selection it reports is the one the
\* selector makes of the value published last.
Published ==
    [gesture |-> lastEmittedGestureRef, position |-> prevPositionRef,
     isPresent |-> gestureHistoryRef # <<>>]

FrameRan == projection' # projection \/ frameIn' # frameIn \/ pendingIndex' # pendingIndex

C21_SingleWriter ==
    [][/\ handDataRef' = Published'
       /\ handDataRef' # handDataRef
              => /\ ~FrameRan
                 /\ animated' = animated
                 /\ photoParticles' = photoParticles
       /\ FrameRan
              => /\ handDataRef' = handDataRef
                 /\ stabilizerVars' = stabilizerVars
       /\ (projection' # projection /\ pendingIndex' # pendingIndex)
              => pendingIndex' = Selector(appState, Published, photoParticles,
                                          projection')]_vars

\* between two capture ticks a render tick has selected the photo under
\* the hand and the animator has run
C21_Witness ==
    /\ handDataRef.isPresent
    /\ Len(gestureHistoryRef) > 1
    /\ pendingIndex = <<0>>
    /\ projection # <<>>
    /\ frameIn.ticks > 0

\* C22: whatever the delta of a frame, the frame leaves the position and
\* the scale of the ornament and of the photo no farther from the target
\* of that frame than they were before it.
Away(x, y) == IF x < y THEN y - x ELSE x - y

C22_NeverFarther ==
    [][frameIn' # frameIn
          => LET isSelected == 0 = activePhotoIndex
                 ornament == OrnamentTarget(appState, frameIn'.sway)
                 photo == PhotoTarget(appState, isSelected, frameIn'.sway)
                 ornamentScale == OrnamentScaleTarget(appState)
                 photoScale == PhotoScaleTarget(appState, isSelected)
             IN  /\ Away(animated'.ornament, ornament) <= Away(animated.ornament, ornament)
                 /\ Away(animated'.photo, photo) <= Away(animated.photo, photo)
                 /\ Away(animated'.ornamentScale, ornamentScale)
                        <= Away(animated.ornamentScale, ornamentScale)
                 /\ Away(animated'.photoScale, photoScale)
                        <= Away(animated.photoScale, photoScale)]_vars
====
